---- MODULE Spec2Model ----
(***************************************************************************)
(* Model of KeyFinder (src/src/key_finder.py): decompression of a          *)
(* compressed public key, the baby-step giant-step solver bsgs and the     *)
(* window loop of solve_puzzle.                                            *)
(*                                                                         *)
(* Scaling.  secp256k1 (y^2 = x^3 + 7 over a 256-bit prime field, prime    *)
(* group order, p = 3 mod 4) is replaced by the curve with the same        *)
(* equation over F_67, which also has prime order (79), p = 3 mod 4 and no *)
(* point with x = 0.  A compressed key is 2 prefix digits followed by      *)
(* XDigits hex digits of x (64 in the program).  Python's float (53-bit    *)
(* significand) is modelled with a MantBits-bit significand and the same   *)
(* rounding rules.                                                         *)
(***************************************************************************)
EXTENDS Integers, Sequences, FiniteSets, TLC

\* ---------------------------------------------------------------- bounds
MaxRange  == 17      \* start_range, end_range are drawn from 0..MaxRange
MaxStart  == 10      \* direct bsgs calls: start in 0..MaxStart
MaxW      == 9       \* direct bsgs calls: max_steps in 1..MaxW
MaxWide   == 1040    \* window sizing alone: interval sizes up to MaxWide
MaxKeyLen == 5       \* codec alone: keys of 0..MaxKeyLen hex digits
MantBits  == 10      \* significand width of the modelled float
XDigits   == 2       \* hex digits of an x coordinate

\* ------------------------------------------------------- curve parameters
CurveP == 67         \* self.curve.p()
CurveA == 0          \* self.curve.a()
CurveB == 7          \* self.curve.b()
Order  == 79         \* SECP256k1.order
G      == <<2, 22>>  \* SECP256k1.generator
INFINITY == <<-1, -1>>   \* ecdsa's INFINITY, whose x() and y() are None
None   == -1         \* Python's None where a scalar is expected

\* --------------------------------------------------------- field and group
RECURSIVE PowMod(_, _, _)
PowMod(b, e, m) ==
    IF e = 0 THEN 1 % m
    ELSE IF e % 2 = 0 THEN PowMod((b * b) % m, e \div 2, m)
    ELSE (b * PowMod((b * b) % m, e \div 2, m)) % m

InvTable == [a \in 1..(CurveP - 1) |-> PowMod(a, CurveP - 2, CurveP)]
Inv(a) == InvTable[a % CurveP]

\* Point.__add__ / PointJacobi.__add__ of ecdsa, in affine coordinates
Add(p, q) ==
    IF p = INFINITY THEN q
    ELSE IF q = INFINITY THEN p
    ELSE IF p[1] = q[1]
      THEN IF (p[2] + q[2]) % CurveP = 0
             THEN INFINITY
             ELSE LET l  == ((3 * p[1] * p[1] + CurveA) * Inv(2 * p[2])) % CurveP
                      x3 == (l * l - 2 * p[1]) % CurveP
                  IN  <<x3, (l * (p[1] - x3) - p[2]) % CurveP>>
      ELSE LET l  == ((q[2] - p[2]) * Inv(q[1] - p[1])) % CurveP
               x3 == (l * l - p[1] - q[1]) % CurveP
           IN  <<x3, (l * (p[1] - x3) - p[2]) % CurveP>>

RECURSIVE Multiples(_)
\* <<G*1, G*2, ..., G*n>>
Multiples(n) ==
    IF n = 0 THEN <<>>
    ELSE LET prev == Multiples(n - 1)
         IN  Append(prev, IF n = 1 THEN G ELSE Add(prev[n - 1], G))

GTable == Multiples(Order - 1)

\* self.G * k ; G * 0 is INFINITY and a negative k is reduced by the group order
Mul(k) == IF k % Order = 0 THEN INFINITY ELSE GTable[k % Order]

GroupPoints == {Mul(k) : k \in 0..(Order - 1)}

\* ------------------------------------------------------------------- hex
RECURSIVE FromHex(_)
\* int(s, 16) for a non-empty string of hex digits
FromHex(s) == IF Len(s) = 0 THEN 0
              ELSE 16 * FromHex(SubSeq(s, 1, Len(s) - 1)) + s[Len(s)]

RECURSIVE ToHex(_, _)
\* format(x, '0{n}x')
ToHex(x, n) == IF n = 0 /\ x = 0 THEN <<>>
               ELSE Append(ToHex(x \div 16, IF n = 0 THEN 0 ELSE n - 1), x % 16)

\* compressed encoding of a finite point: 02 / 03 by the parity of y, then x
Compress(pt) == <<0, IF pt[2] % 2 = 0 THEN 2 ELSE 3>> \o ToHex(pt[1], XDigits)

\* str.startswith of a two-character prefix
StartsWith(s, d1, d2) == Len(s) >= 2 /\ s[1] = d1 /\ s[2] = d2

\* ---------------------------------------------------------- decompression
\* numbertheory.square_root_mod_prime for p = 3 (mod 4): SquareRootError when
\* a is not a square, else a^((p+1)/4)
IsSquare(a) == a = 0 \/ PowMod(a, (CurveP - 1) \div 2, CurveP) = 1
SquareRoot(a) == PowMod(a, (CurveP + 1) \div 4, CurveP)

calculate_public_key_point_noadjust(target_public_key) ==
    IF Len(target_public_key) <= 2
      THEN [err |-> "ValueError", pt |-> INFINITY]
      ELSE LET public_key_x == FromHex(SubSeq(target_public_key, 3, Len(target_public_key)))
               xr       == public_key_x % CurveP
               y_square == (xr * xr * xr + CurveA * xr + CurveB) % CurveP
           IN  IF ~IsSquare(y_square)
                 THEN [err |-> "SquareRootError", pt |-> INFINITY]
                 ELSE [err |-> "none", pt |-> <<public_key_x, SquareRoot(y_square)>>]

calculate_public_key_point(target_public_key) ==
    IF Len(target_public_key) <= 2
      THEN [err |-> "ValueError", pt |-> INFINITY]
      ELSE LET public_key_x == FromHex(SubSeq(target_public_key, 3, Len(target_public_key)))
               xr       == public_key_x % CurveP
               y_square == (xr * xr * xr + CurveA * xr + CurveB) % CurveP
               root     == SquareRoot(y_square)
               public_key_y ==
                   IF (StartsWith(target_public_key, 0, 2) /\ root % 2 # 0)
                      \/ (StartsWith(target_public_key, 0, 3) /\ root % 2 = 0)
                     THEN CurveP - root
                     ELSE root
           IN  IF ~IsSquare(y_square)
                 THEN [err |-> "SquareRootError", pt |-> INFINITY]
                 ELSE [err |-> "none", pt |-> <<public_key_x, public_key_y>>]

\* ------------------------------------------------------------------ float
RECURSIVE Pow2(_)
Pow2(e) == IF e <= 0 THEN 1 ELSE 2 * Pow2(e - 1)

RECURSIVE BitLen(_)
\* int.bit_length
BitLen(n) == IF n = 0 THEN 0 ELSE 1 + BitLen(n \div 2)

RECURSIVE Isqrt(_)
Isqrt(n) == IF n < 2 THEN n
            ELSE LET r == 2 * Isqrt(n \div 4)
                 IN  IF (r + 1) * (r + 1) <= n THEN r + 1 ELSE r

\* A positive float is <<M, s>>, the value M * 2^s with
\* 2^(MantBits-1) <= M < 2^MantBits.

\* int -> float conversion of n >= 1: round to nearest, ties to even
ToFloat(n) ==
    LET L == BitLen(n)
    IN  IF L <= MantBits
          THEN <<n * Pow2(MantBits - L), L - MantBits>>
          ELSE LET sh   == L - MantBits
                   q    == n \div Pow2(sh)
                   r    == n % Pow2(sh)
                   half == Pow2(sh - 1)
                   up   == r > half \/ (r = half /\ q % 2 = 1)
                   q1   == IF up THEN q + 1 ELSE q
               IN  IF q1 = Pow2(MantBits) THEN <<Pow2(MantBits - 1), sh + 1>>
                                          ELSE <<q1, sh>>

RECURSIVE RootScale(_, _)
\* the least t with M * 4^t >= 2^(2*MantBits): the root of M * 4^t then has
\* MantBits + 1 bits, one more than the significand
RootScale(M, t) == IF M * Pow2(2 * t) >= Pow2(2 * MantBits) THEN t
                   ELSE RootScale(M, t + 1)

\* math.sqrt: the correctly rounded square root (IEEE 754)
FSqrt(f) ==
    LET odd == f[2] % 2 # 0
        M   == IF odd THEN 2 * f[1] ELSE f[1]
        s   == IF odd THEN f[2] - 1 ELSE f[2]
        t2  == RootScale(M, 0)
        N   == M * Pow2(2 * t2)
        q   == Isqrt(N)
        m   == IF q % 2 = 0 THEN q \div 2
               ELSE IF q * q = N
                      THEN (IF ((q + 1) \div 2) % 2 = 0 THEN (q + 1) \div 2 ELSE (q - 1) \div 2)
                      ELSE (q + 1) \div 2
        e   == (s \div 2) - t2 + 1
    IN  IF m = Pow2(MantBits) THEN <<Pow2(MantBits - 1), e + 1>> ELSE <<m, e>>

\* math.log2 rounds to the integer m every float that lies at most
\* LogSlack(m) units in the last place below 2^m: floor(ln 2 * 2^a) where
\* 2^a < m <= 2^(a+1), the half-spacing of the floats just below m.
LogSlack(m) == IF m <= 2 THEN 0 ELSE IF m <= 4 THEN 1 ELSE IF m <= 8 THEN 2
               ELSE IF m <= 16 THEN 5 ELSE 11

\* int(math.log2(f)) for a float f >= 1
IntLog2(f) ==
    LET E == f[2] + MantBits - 1
    IN  IF f[1] # Pow2(MantBits - 1) /\ Pow2(MantBits) - f[1] <= LogSlack(E + 1)
          THEN E + 1 ELSE E

compute_max_steps_noraise(interval_size) ==
    IF interval_size <= 0
      THEN [err |-> "none", w |-> 1]
      ELSE [err |-> "none", w |-> Pow2(IntLog2(FSqrt(ToFloat(interval_size))))]

\* 2 ** int(math.log2(math.sqrt(interval_size))); math.sqrt raises ValueError
\* below 0 and math.log2 raises ValueError at 0.0
compute_max_steps(interval_size) ==
    IF interval_size <= 0
      THEN [err |-> "ValueError", w |-> 0]
      ELSE [err |-> "none", w |-> Pow2(IntLog2(FSqrt(ToFloat(interval_size))))]

\* ------------------------------------------------------------------- bsgs
RECURSIVE BabySteps(_, _, _)
\* the points stored by the first loop, in order of i = 0 .. max_steps-1
BabySteps(current, i, max_steps) ==
    IF i >= max_steps THEN <<>>
    ELSE <<current>> \o BabySteps(Add(current, G), i + 1, max_steps)

\* baby_steps[key]: the dict keeps the last i stored under a key
BabyIndex(baby, key) ==
    LET hits == {i \in 1..Len(baby) : baby[i] = key}
    IN  IF hits = {} THEN None
        ELSE (CHOOSE i \in hits : \A h \in hits : h <= i) - 1

RECURSIVE GiantSteps(_, _, _, _, _, _)
GiantSteps(current, j, max_steps, start, baby, steps_tried) ==
    IF j >= max_steps THEN [result |-> None, steps |-> steps_tried]
    ELSE IF BabyIndex(baby, current) # None
      THEN [result |-> start + j * max_steps + BabyIndex(baby, current),
            steps  |-> steps_tried]
      ELSE GiantSteps(Add(current, Mul(-max_steps)), j + 1, max_steps, start,
                      baby, steps_tried + 1)

RECURSIVE GiantStepsNoStride(_, _, _, _, _, _)
GiantStepsNoStride(current, j, max_steps, start, baby, steps_tried) ==
    IF j >= max_steps THEN [result |-> None, steps |-> steps_tried]
    ELSE IF BabyIndex(baby, current) # None
      THEN [result |-> start + j + BabyIndex(baby, current),
            steps  |-> steps_tried]
      ELSE GiantStepsNoStride(Add(current, Mul(-max_steps)), j + 1, max_steps,
                              start, baby, steps_tried + 1)

\* bsgs reporting start + j + i in place of start + j*max_steps + i
bsgs_nostride(target_point, max_steps, start) ==
    GiantStepsNoStride(target_point, 0, max_steps, start,
                       BabySteps(Mul(start), 0, max_steps), max_steps)

\* bsgs whose giant-step phase only looks at the target itself (j = 0)
bsgs_onegiant(target_point, max_steps, start) ==
    LET baby == BabySteps(Mul(start), 0, max_steps)
    IN  IF BabyIndex(baby, target_point) # None
          THEN [result |-> start + BabyIndex(baby, target_point), steps |-> max_steps]
          ELSE [result |-> None, steps |-> 2 * max_steps]

\* bsgs that counts the giant step before it looks the point up
bsgs_countfirst(target_point, max_steps, start) ==
    LET r == GiantSteps(target_point, 0, max_steps, start,
                        BabySteps(Mul(start), 0, max_steps), max_steps)
    IN  IF r.result = None THEN r ELSE [result |-> r.result, steps |-> r.steps + 1]

bsgs(target_point, max_steps, start) ==
    GiantSteps(target_point, 0, max_steps, start,
               BabySteps(Mul(start), 0, max_steps), max_steps)

\* ------------------------------------------------------------------ state
VARIABLES
    pc,                       \* position in solve_puzzle
    start_range, end_range,   \* int(start_range_hex, 16), int(end_range_hex, 16)
    target_public_key,        \* the compressed key, a sequence of hex digits
    interval_size, max_steps,
    decoded,                  \* calculate_public_key_point has been called
    target_public_key_point,
    total_steps_tried, private_key_integer,
    start,                    \* the loop variable of the window loop
    calls,                    \* the bsgs calls made so far, in order
    outcome,                  \* what solve_puzzle printed or raised
    b_pc, b_target, b_max_steps, b_start, b_out,   \* one direct call of bsgs
    c_pc, c_key, c_out        \* one direct call of calculate_public_key_point

solveVars == <<pc, start_range, end_range, target_public_key, interval_size,
               max_steps, decoded, target_public_key_point, total_steps_tried,
               private_key_integer, start, calls, outcome>>
bsgsVars  == <<b_pc, b_target, b_max_steps, b_start, b_out>>
codecVars == <<c_pc, c_key, c_out>>
vars == <<solveVars, bsgsVars, codecVars>>

NoResult == [result |-> None, steps |-> 0]
NoPoint  == [err |-> "none", pt |-> INFINITY]

SolveIdle ==
    /\ interval_size = 0 /\ max_steps = 0 /\ decoded = FALSE
    /\ target_public_key_point = INFINITY
    /\ total_steps_tried = 0 /\ private_key_integer = None
    /\ start = 0 /\ calls = <<>> /\ outcome = "running"
BsgsIdle ==
    b_pc = "idle" /\ b_target = INFINITY /\ b_max_steps = 1 /\ b_start = 0
    /\ b_out = NoResult
CodecIdle == c_pc = "idle" /\ c_key = <<>> /\ c_out = NoPoint

\* keys given to solve_puzzle: the encoding of every finite group point, and
\* one well-formed key whose x is on no curve point
OffCurveKey == <<0, 2>> \o ToHex(0, XDigits)
TargetKeys == {Compress(Mul(k)) : k \in 1..(Order - 1)} \cup {OffCurveKey}

\* keys given to calculate_public_key_point directly: a prefix and up to
\* MaxKeyLen - 2 hex digits
Prefixes == {<<0, 1>>, <<0, 2>>, <<0, 3>>, <<0, 4>>}
HexStrings == UNION {[1..n -> 0..15] : n \in 0..(MaxKeyLen - 2)}
CodecKeys == {pre \o x : pre \in Prefixes, x \in HexStrings}

\* ------------------------------------------------------------ solve_puzzle
Init ==
    /\ pc = "start"
    /\ start_range \in 0..MaxRange
    /\ end_range \in 0..MaxRange
    /\ target_public_key \in TargetKeys
    /\ SolveIdle /\ BsgsIdle /\ CodecIdle

\* lines 110-114: the range and the window size
SizeWindow ==
    /\ pc = "start"
    /\ LET size == end_range - start_range + 1
           r    == compute_max_steps(size)
       IN  /\ interval_size' = size
           /\ IF r.err # "none"
                THEN pc' = "error" /\ outcome' = r.err /\ UNCHANGED max_steps
                ELSE pc' = "decode" /\ max_steps' = r.w /\ UNCHANGED outcome
    /\ UNCHANGED <<start_range, end_range, target_public_key, decoded,
                   target_public_key_point, total_steps_tried,
                   private_key_integer, start, calls>>
    /\ UNCHANGED <<bsgsVars, codecVars>>

\* lines 116-120: the target point and the counters
DecodeKey ==
    /\ pc = "decode"
    /\ decoded' = TRUE
    /\ LET r == calculate_public_key_point(target_public_key)
       IN  IF r.err # "none"
             THEN /\ pc' = "error" /\ outcome' = r.err
                  /\ UNCHANGED <<target_public_key_point, start>>
             ELSE /\ pc' = "loop" /\ target_public_key_point' = r.pt
                  /\ start' = start_range
                  /\ UNCHANGED outcome
    /\ total_steps_tried' = 0
    /\ private_key_integer' = None
    /\ UNCHANGED <<start_range, end_range, target_public_key, interval_size,
                   max_steps, calls>>
    /\ UNCHANGED <<bsgsVars, codecVars>>

\* lines 123-130: one iteration of for start in range(start_range, end_range, max_steps)
Window ==
    /\ pc = "loop"
    /\ start < end_range
    /\ LET r == bsgs(target_public_key_point, max_steps, start)
       IN  /\ calls' = Append(calls, [start |-> start, max_steps |-> max_steps])
           /\ total_steps_tried' = total_steps_tried + r.steps
           /\ IF r.result # None
                THEN /\ private_key_integer' = r.result
                     /\ pc' = "report"
                     /\ UNCHANGED start
                ELSE /\ start' = start + max_steps
                     /\ UNCHANGED <<private_key_integer, pc>>
    /\ UNCHANGED <<start_range, end_range, target_public_key, interval_size,
                   max_steps, decoded, target_public_key_point, outcome>>
    /\ UNCHANGED <<bsgsVars, codecVars>>

\* lines 133-139: the loop is over (exhausted or left by break); the result
Report ==
    /\ IF pc = "loop" THEN ~(start < end_range) ELSE pc = "report"
    /\ outcome' = IF private_key_integer # None THEN "Found" ELSE "NotFound"
    /\ pc' = "done"
    /\ UNCHANGED <<start_range, end_range, target_public_key, interval_size,
                   max_steps, decoded, target_public_key_point,
                   total_steps_tried, private_key_integer, start, calls>>
    /\ UNCHANGED <<bsgsVars, codecVars>>

Next == SizeWindow \/ DecodeKey \/ Window \/ Report

Spec == Init /\ [][Next]_vars

\* ----------------------------------------------- the window size on its own
InitWindow ==
    /\ pc = "start"
    /\ start_range \in 0..1
    /\ end_range \in 0..MaxWide
    /\ target_public_key = Compress(G)
    /\ SolveIdle /\ BsgsIdle /\ CodecIdle

NextWindow == SizeWindow

SpecWindow == InitWindow /\ [][NextWindow]_vars

\* ------------------------------------------------------- bsgs on its own
InitBsgs ==
    /\ b_pc = "call"
    /\ b_target \in GroupPoints
    /\ b_max_steps \in 1..MaxW
    /\ b_start \in 0..MaxStart
    /\ b_out = NoResult
    /\ pc = "idle" /\ start_range = 0 /\ end_range = 0
    /\ target_public_key = <<>>
    /\ SolveIdle /\ CodecIdle

CallBsgs ==
    /\ b_pc = "call"
    /\ b_out' = bsgs(b_target, b_max_steps, b_start)
    /\ b_pc' = "returned"
    /\ UNCHANGED <<b_target, b_max_steps, b_start>>
    /\ UNCHANGED <<solveVars, codecVars>>

NextBsgs == CallBsgs

SpecBsgs == InitBsgs /\ [][NextBsgs]_vars

\* ------------------------------- calculate_public_key_point on its own
InitCodec ==
    /\ c_pc = "call"
    /\ c_key \in CodecKeys
    /\ c_out = NoPoint
    /\ pc = "idle" /\ start_range = 0 /\ end_range = 0
    /\ target_public_key = <<>>
    /\ SolveIdle /\ BsgsIdle

CallCodec ==
    /\ c_pc = "call"
    /\ c_out' = calculate_public_key_point(c_key)
    /\ c_pc' = "returned"
    /\ UNCHANGED c_key
    /\ UNCHANGED <<solveVars, bsgsVars>>

NextCodec == CallCodec

SpecCodec == InitCodec /\ [][NextCodec]_vars

\* ================================================================ claims
\* the scalar of a group point
DLog(pt) == CHOOSE k \in 0..(Order - 1) : Mul(k) = pt

\* the window starts passed to bsgs, in order
CallStarts == [i \in 1..Len(calls) |-> calls[i].start]

\* the giant-step index at which the last call matched
FoundIndex == (private_key_integer - calls[Len(calls)].start) \div max_steps

IsPowerOfTwo(w) == \E e \in 0..BitLen(w) : w = Pow2(e)

\* C1: for every range [lo, hi] and every scalar k in it, the scan of
\* generator*k over [lo, hi] ends Found with exactly k (k = hi, lo = hi and
\* window size 1 included).
C1_ScanFindsKeyInRange ==
    \A k \in 1..(Order - 1) :
        (/\ pc = "done"
         /\ target_public_key = Compress(Mul(k))
         /\ start_range <= k /\ k <= end_range)
        => (outcome = "Found" /\ private_key_integer = k)

\* C2: for a target generator*k with k outside [lo, hi] the scan ends
\* not-found; no scalar is reported for a key outside the interval.
C2_KeyOutsideRangeNotFound ==
    \A k \in 1..(Order - 1) :
        (/\ pc = "done"
         /\ target_public_key = Compress(Mul(k))
         /\ (k < start_range \/ k > end_range))
        => (outcome = "NotFound" /\ private_key_integer = None)

\* C3 as stated: when the scan finishes, total_steps_tried is
\* 2 * windowSize * (number of windows visited), the found window included.
C3_TotalIsTwoWindowSizesPerWindow ==
    pc = "done" => total_steps_tried = 2 * max_steps * Len(calls)

\* C3 amended: when the scan finishes, every visited window that did not
\* match has contributed 2 * windowSize, and the window in which the scalar
\* was found at giant-step index j has contributed windowSize + j.
C3_TotalCountsFoundWindowToItsMatch ==
    pc = "done" =>
        total_steps_tried =
            IF outcome = "Found"
              THEN 2 * max_steps * (Len(calls) - 1) + max_steps + FoundIndex
              ELSE 2 * max_steps * Len(calls)

C3_Witness ==
    /\ pc = "done" /\ outcome = "Found"
    /\ Len(calls) >= 2 /\ FoundIndex >= 1
    /\ total_steps_tried = 2 * max_steps * (Len(calls) - 1) + max_steps + FoundIndex

\* C4: decompressing a key whose length is not 2 + XDigits or whose prefix
\* is neither 02 nor 03 ends in an error and returns no point, whatever x is.
C4_MalformedKeyIsRejected ==
    (/\ c_pc = "returned"
     /\ \/ Len(c_key) # 2 + XDigits
        \/ ~(StartsWith(c_key, 0, 2) \/ StartsWith(c_key, 0, 3)))
    => c_out.err # "none"

\* C5: a scan with endRange < startRange fails with an error raised at the
\* range computation, before the key is decoded and before any window; it
\* reports neither Found nor not-found.
C5_ReversedRangeFailsBeforeDecoding ==
    (end_range < start_range /\ pc # "start")
    => (/\ pc = "error" /\ outcome = "ValueError"
        /\ ~decoded /\ calls = <<>>
        /\ private_key_integer = None /\ total_steps_tried = 0)

C5_Witness ==
    /\ end_range = start_range - 1
    /\ pc = "error" /\ outcome = "ValueError" /\ ~decoded /\ calls = <<>>

\* C6: for every finite point generator*k, decompressing its compressed
\* encoding yields the same x and y; the y returned has the parity of the
\* prefix and satisfies y^2 = x^3 + 7 (mod p).
C6_DecompressInvertsCompress ==
    \A k \in 1..(Order - 1) :
        (c_pc = "returned" /\ c_key = Compress(Mul(k)))
        => (/\ c_out.err = "none"
            /\ c_out.pt = Mul(k)
            /\ c_out.pt[2] % 2 = (IF StartsWith(c_key, 0, 2) THEN 0 ELSE 1)
            /\ (c_out.pt[2] * c_out.pt[2]) % CurveP
                 = (c_out.pt[1] * c_out.pt[1] * c_out.pt[1] + CurveB) % CurveP)

\* a round trip in which the computed root had the wrong parity
C6_Witness ==
    /\ c_pc = "returned" /\ c_out.err = "none"
    /\ \E k \in 1..(Order - 1) : c_key = Compress(Mul(k)) /\ c_out.pt = Mul(k)
    /\ StartsWith(c_key, 0, 3)
    /\ SquareRoot((c_out.pt[1] * c_out.pt[1] * c_out.pt[1] + CurveB) % CurveP) % 2 = 0

\* C7: a scalar s reported by bsgs for target T has the form
\* start + j*windowSize + i and satisfies generator * s = T.
C7_FoundScalarMapsToTarget ==
    (b_pc = "returned" /\ b_out.result # None)
    => (/\ Mul(b_out.result) = b_target
        /\ \E i, j \in 0..(b_max_steps - 1) :
               b_out.result = b_start + j * b_max_steps + i)

\* a match at a giant step j >= 1
C7_Witness ==
    /\ b_pc = "returned" /\ b_out.result # None
    /\ b_out.result >= b_start + b_max_steps
    /\ Mul(b_out.result) = b_target

\* C8: when no window matches, bsgs is called once for each of startRange,
\* startRange + w, ... up to and including the last value <= endRange, in
\* increasing order; when a window matches it is the last one called.
C8_WindowsUpToEndRangeInclusive ==
    pc = "done" =>
        IF outcome = "NotFound"
          THEN CallStarts = [i \in 1..((end_range - start_range) \div max_steps + 1)
                               |-> start_range + (i - 1) * max_steps]
          ELSE \A i \in 1..Len(calls) : calls[i].start = start_range + (i - 1) * max_steps

\* C9: for every intervalLength >= 1 the window size is a power of two w >= 1
\* with w^2 <= intervalLength < 4*w^2.
C9_WindowSizeIsFloorPowerOfTwo ==
    (pc = "decode" /\ interval_size >= 1)
    => (/\ max_steps >= 1
        /\ IsPowerOfTwo(max_steps)
        /\ max_steps * max_steps <= interval_size
        /\ interval_size < 4 * max_steps * max_steps)

\* C10: with the group order above start + w^2, bsgs(generator*k, w, start)
\* returns k exactly when start <= k < start + w^2, and None otherwise.
C10_OneCallCoversWindowSizeSquared ==
    (b_pc = "returned" /\ Order > b_start + b_max_steps * b_max_steps)
    => b_out.result =
           IF b_start <= DLog(b_target)
              /\ DLog(b_target) < b_start + b_max_steps * b_max_steps
             THEN DLog(b_target) ELSE None

\* a scalar found beyond the first w scalars of the window
C10_Witness ==
    /\ b_pc = "returned" /\ Order > b_start + b_max_steps * b_max_steps
    /\ b_max_steps >= 2
    /\ b_out.result = DLog(b_target)
    /\ b_out.result >= b_start + b_max_steps

====
